---- MODULE Spec2Model ----
(***************************************************************************)
(* Emote auto-response engine of the Emotes cog                            *)
(* (src/emoji_connoisseur/extensions/emote.py): token extraction, the      *)
(* bounded reply cache and the handlers of the message, edit, delete and   *)
(* bulk-delete events.  Handlers are coroutines: every step of the model   *)
(* is the code that runs between two awaits of one handler.                *)
(***************************************************************************)
EXTENDS Integers, Sequences, FiniteSets, Bags, TLC

\* ------------------------------------------------------------------ bounds
\* number of events (new message, edit, delete, bulk delete) the feed delivers
MaxEvents == 3
\* the largest capacity the reply cache is built with (1024**2//256 in the
\* program, scaled down so that eviction is reachable)
MaxCache == 2

\* number of pieces (a character or a whole symbol) of the texts that are
\* extracted one at a time
MaxPieces == 2

\* source message ids: at most one new message per event
Msgs == 1..MaxEvents

\* ------------------------------------------------------------- text, tokens
\* a text is a sequence of one-character strings
Names == {<<"x">>}
IdentChars == {"x", "y", "a"}
Delims == {":", ";"}

\* a text without symbol tokens, and one that holds the symbol x twice, in both
\* delimiter forms, after a line of plain text
T_a == <<"a">>
T_xx == <<"a", "\n", ";", "x", ";", ":", "x", ":">>
\* the contents the event feed delivers in new-message and edit events
Contents == {T_a, T_xx}

\* the names of the store and the texts of the extraction runs: up to MaxPieces
\* pieces, each a delimiter, an identifier character, a newline, a mention
\* marker or a whole symbol
ExtractNames == {<<"x">>, <<"y">>}
Pieces ==
    {<<":">>, <<";">>, <<"x">>, <<"\n">>, <<"@">>, <<":", "x", ":">>, <<";", "y", ";">>}
RECURSIVE TextsOf(_)
TextsOf(n) ==
    IF n = 0 THEN {<<>>}
    ELSE LET shorter == TextsOf(n - 1)
         IN  shorter \cup {s \o p : s \in shorter, p \in Pieces}
Texts == TextsOf(MaxPieces)

\* SubSeq that is empty when the range is empty
Slice(s, a, b) == IF a > b THEN <<>> ELSE SubSeq(s, a, b)

\* the index of the closing delimiter of an ident started at p (p holds the
\* opening delimiter, q scans the identifier), or 0 when there is none
RECURSIVE IdentEnd(_, _, _)
IdentEnd(text, p, q) ==
    IF q > Len(text) THEN 0
    ELSE IF text[q] \in IdentChars THEN IdentEnd(text, p, q + 1)
    ELSE IF text[q] = text[p] /\ q > p + 1 THEN q
    ELSE 0

\* utils.lexer: :ident: and ;ident; are EMOTE tokens, every other character,
\* newlines included, is a TEXT token of its own
RECURSIVE LexFrom(_, _)
LexFrom(text, p) ==
    IF p > Len(text) THEN <<>>
    ELSE LET q == IF text[p] \in Delims THEN IdentEnd(text, p, p + 1) ELSE 0
         IN  IF q > 0
             THEN <<[type |-> "EMOTE", value |-> SubSeq(text, p, q)]>> \o LexFrom(text, q + 1)
             ELSE <<[type |-> "TEXT", value |-> <<text[p]>>]>> \o LexFrom(text, p + 1)

\* lexer as it would be if one lexer were shared and its cursor had already
\* moved past the first character when the loop starts
lexer_shared(text) == LexFrom(text, 2)

lexer(text) == LexFrom(text, 1)

\* str.strip(':;')
RECURSIVE strip(_)
strip(v) ==
    IF v = <<>> THEN v
    ELSE IF v[1] \in Delims THEN strip(Tail(v))
    ELSE IF v[Len(v)] \in Delims THEN strip(Slice(v, 1, Len(v) - 1))
    ELSE v

\* str(emote): the rendered form of a stored emote
Render(name) == <<"<", ":">> \o name \o <<":", ">">>

\* utils.clean_content: neutralises mention markers in the text to be sent
RECURSIVE clean_content(_)
clean_content(text) ==
    IF text = <<>> THEN <<>>
    ELSE IF text[1] = "@" THEN <<"@", "~">> \o clean_content(Tail(text))
    ELSE <<text[1]>> \o clean_content(Tail(text))

\* utils.fix_first_line: strips the leading blank lines of the composed reply
RECURSIVE fix_first_line(_)
fix_first_line(text) ==
    IF text # <<>> /\ text[1] = "\n" THEN fix_first_line(Tail(text)) ELSE text

\* ------------------------------------------------------------ the LRU cache
\* utils.LRUDict: a sequence of [key, value] entries, least recently used first
LRUKeys(d) == {d[i].key : i \in 1..Len(d)}
LRUHas(d, k) == k \in LRUKeys(d)
LRUIndex(d, k) == CHOOSE i \in 1..Len(d) : d[i].key = k
LRUValue(d, k) == d[LRUIndex(d, k)].value
LRUDel(d, k) ==
    LET i == LRUIndex(d, k) IN Slice(d, 1, i - 1) \o Slice(d, i + 1, Len(d))
\* __getitem__ moves the entry to the most-recently-used end
LRUTouch(d, k) == LRUDel(d, k) \o <<[key |-> k, value |-> LRUValue(d, k)]>>
\* __setitem__ drops the least recently used entry of a full cache
LRUSet(d, size, k, v) ==
    LET base == IF LRUHas(d, k) THEN LRUDel(d, k)
                ELSE IF Len(d) >= size THEN Tail(d)
                ELSE d
    IN  base \o <<[key |-> k, value |-> v]>>

\* --------------------------------------------------------------- the state
VARIABLES
    emotes,   \* the names the emote store resolves (self.db)
    size,     \* the capacity self.replies was built with
    replies,  \* self.replies: source message id -> the reply Message, an LRUDict
    posted,   \* per reply posted so far: its source message, the delete calls on it
    seen,     \* the number of new-message events delivered so far
    events,   \* the number of events delivered so far
    tasks,    \* the suspended event handlers, a bag: two may be alike
    done,     \* the handler that returned or raised in the last step, if one did
    hist      \* a record of the events so far, kept where hist.on is set

vars == <<emotes, size, replies, posted, seen, events, tasks, done, hist>>

\* an edit payload whose data holds no 'content' key
NoContent == <<"no content">>

\* saturating call counter: 2 stands for "more than once"
Inc(n) == IF n >= 2 THEN 2 ELSE n + 1

\* a handler: its arguments and locals, where it is suspended (pc), and a record
\* of the calls it has made so far
Idle ==
    [kind |-> "idle", id |-> 0, content |-> <<>>, pc |-> "idle", i |-> 0,
     out |-> <<>>, used |-> {}, tolog |-> {}, reply |-> 0, text |-> <<>>,
     todo |-> {}, ids |-> {}, start |-> {}, popped |-> {}, hit |-> {},
     hascontent |-> FALSE, tracked |-> FALSE, had |-> FALSE, same |-> FALSE,
     lookups |-> 0, logged |-> {}, relogged |-> {}, posts |-> 0, edits |-> 0,
     deletes |-> 0, failed |-> FALSE, outcome |-> "none"]

NewTask(kind, id, content) ==
    [Idle EXCEPT !.kind = kind, !.id = id, !.content = content, !.pc = "run"]

\* the handlers that are suspended
Running == BagToSet(tasks)
\* the bag without the handler t (Idle stands for a handler that has just been
\* called and was never suspended)
Resumed(t) == IF t = Idle THEN tasks ELSE tasks (-) SetToBag({t})

\* no record of the events is kept
HistOff == [on |-> FALSE, latest |-> <<>>, deleted |-> {}, failed |-> FALSE]

\* the record after a step of the handler t, grown into tk: the content that
\* the latest new-message or edit event has carried for each message id, the
\* ids that delete and bulk-delete events have named, and whether a call of
\* the outbound client has failed so far
Note(t, tk) ==
    IF ~hist.on THEN hist
    ELSE [hist EXCEPT
            !.failed = @ \/ tk.failed,
            !.latest = IF t = Idle /\ (tk.kind = "message" \/ (tk.kind = "edit" /\ tk.hascontent))
                       THEN [@ EXCEPT ![tk.id] = tk.content]
                       ELSE @,
            !.deleted = IF t = Idle /\ tk.kind \in {"delete", "bulk"} THEN @ \cup tk.ids ELSE @]

\* the handler t, grown into tk, returns (outcome "returned") or raises (the
\* exception's name); done keeps what it was called with and what it did, not
\* its locals
Finish(t, tk, outcome) ==
    /\ tasks' = Resumed(t)
    /\ done' = [tk EXCEPT !.outcome = outcome, !.pc = "done", !.content = <<>>,
                          !.i = 0, !.out = <<>>, !.text = <<>>, !.tolog = {}]
    /\ hist' = Note(t, tk)

\* the handler t, grown into tk, reaches an await
Suspend(t, tk) ==
    /\ tasks' = Resumed(t) (+) SetToBag({tk})
    /\ done' = Idle
    /\ hist' = Note(t, tk)

Init ==
    /\ emotes \in SUBSET Names
    /\ size = MaxCache
    /\ events = 0
    /\ replies = <<>>
    /\ posted = <<>>
    /\ seen = 0
    /\ tasks = EmptyBag
    /\ done = Idle
    /\ hist = HistOff

\* ------------------------------------------------------------- extraction
\* predicate as it would be if it wrote every TEXT token through, as the
\* predicate of quote_emotes does
predicate_keepText(tok, out) ==
    IF tok.type = "TEXT"
    THEN [accept |-> FALSE, out |-> out \o tok.value]
    ELSE [accept |-> tok.type = "EMOTE", out |-> out]

\* the predicate of extract_emotes: a newline is written through, other text is
\* dropped, an EMOTE token is accepted for lookup
predicate(tok, out) ==
    IF tok.type = "TEXT" /\ tok.value = <<"\n">>
    THEN [accept |-> FALSE, out |-> out \o tok.value]
    ELSE [accept |-> tok.type = "EMOTE", out |-> out]

\* the loop of _extract_emotes from token i up to the next await: the tokens the
\* predicate rejects are passed over, the first accepted token is where
\* get_emote is awaited; i = Len(toks) + 1 when the loop has ended
RECURSIVE SkipRejected(_, _, _)
SkipRejected(toks, i, out) ==
    IF i > Len(toks) THEN [i |-> i, out |-> out]
    ELSE LET p == predicate(toks[i], out)
         IN  IF p.accept THEN [i |-> i, out |-> p.out]
             ELSE SkipRejected(toks, i + 1, p.out)

\* quote_predicate as it would be if quote_emotes passed the predicate of
\* extract_emotes
quote_predicate_symbolsOnly(tok, out) == predicate(tok, out)

\* the predicate of quote_emotes: every token that is no EMOTE is written
\* through, an EMOTE token is accepted for lookup
quote_predicate(tok, out) ==
    IF tok.type # "EMOTE"
    THEN [accept |-> FALSE, out |-> out \o tok.value]
    ELSE [accept |-> TRUE, out |-> out]

\* the same loop under the predicate of quote_emotes
RECURSIVE SkipQuoted(_, _, _)
SkipQuoted(toks, i, out) ==
    IF i > Len(toks) THEN [i |-> i, out |-> out]
    ELSE LET p == quote_predicate(toks[i], out)
         IN  IF p.accept THEN [i |-> i, out |-> p.out]
             ELSE SkipQuoted(toks, i + 1, p.out)

\* the loop under the predicate its caller has passed: the quote command calls
\* quote_emotes, the event handlers call extract_emotes
Skip(kind, toks, i, out) ==
    IF kind = "quote" THEN SkipQuoted(toks, i, out) ELSE SkipRejected(toks, i, out)

\* the task as it enters the token loop
StartExtract(tk) ==
    LET r == Skip(tk.kind, lexer(tk.content), 1, <<>>)
    IN  [tk EXCEPT !.i = r.i, !.out = r.out]

\* AfterLookup as it would be if the lookup's result were written in front of
\* what is in the buffer
AfterLookup_prepend(tk) ==
    LET toks == lexer(tk.content)
        tok == toks[tk.i]
        name == strip(tok.value)
        found == name \in emotes
        out1 == IF found THEN Render(name) \o tk.out ELSE tok.value \o tk.out
        used1 == IF found THEN tk.used \cup {name} ELSE tk.used
        r == Skip(tk.kind, toks, tk.i + 1, out1)
    IN  [tk EXCEPT !.i = r.i, !.out = r.out, !.used = used1, !.lookups = Inc(@)]

\* AfterLookup as it would be if EmoteNotFoundError were passed over (`pass`)
AfterLookup_dropMiss(tk) ==
    LET toks == lexer(tk.content)
        tok == toks[tk.i]
        name == strip(tok.value)
        found == name \in emotes
        out1 == IF found THEN tk.out \o Render(name) ELSE tk.out
        used1 == IF found THEN tk.used \cup {name} ELSE tk.used
        r == Skip(tk.kind, toks, tk.i + 1, out1)
    IN  [tk EXCEPT !.i = r.i, !.out = r.out, !.used = used1, !.lookups = Inc(@)]

\* AfterLookup as it would be if all extractions read their tokens from one
\* lexer: the cursor is where the extraction that has read furthest left it
AfterLookup_sharedCursor(tk) ==
    LET toks == lexer(tk.content)
        tok == toks[tk.i]
        name == strip(tok.value)
        found == name \in emotes
        out1 == IF found THEN tk.out \o Render(name) ELSE tk.out \o tok.value
        used1 == IF found THEN tk.used \cup {name} ELSE tk.used
        reading == {t.i : t \in {t \in BagToSet(tasks) : t.pc = "lookup"}}
        cursor == CHOOSE c \in reading : \A d \in reading : d <= c
        r == Skip(tk.kind, toks, cursor + 1, out1)
    IN  [tk EXCEPT !.i = r.i, !.out = r.out, !.used = used1, !.lookups = Inc(@)]

\* the task once get_emote for token i has settled and the loop has run on
AfterLookup(tk) ==
    LET toks == lexer(tk.content)
        tok == toks[tk.i]
        name == strip(tok.value)
        found == name \in emotes
        out1 == IF found THEN tk.out \o Render(name) ELSE tk.out \o tok.value
        used1 == IF found THEN tk.used \cup {name} ELSE tk.used
        r == Skip(tk.kind, toks, tk.i + 1, out1)
    IN  [tk EXCEPT !.i = r.i, !.out = r.out, !.used = used1, !.lookups = Inc(@)]

LoopEnded(tk) == tk.i > Len(lexer(tk.content))

\* result as it would be if it were always what the loop has written
result_fromTokens(tk) == tk.out

\* result = out.getvalue() if emotes_used else content
result(tk) == IF tk.used # {} THEN tk.out ELSE tk.content

\* what _extract_emotes returns, through extract_emotes (which fixes the first
\* line) or through quote_emotes: the text and has_emotes
extract_text(tk) ==
    IF tk.kind = "quote" THEN clean_content(result(tk))
    ELSE fix_first_line(clean_content(result(tk)))
has_emotes(tk) == tk.used # {}

\* ------------------------------------------------------ the emote store
\* the add and remove commands change what get_emote resolves
add_emote(n) ==
    /\ n \notin emotes
    /\ emotes' = emotes \cup {n}
    /\ done' = Idle
    /\ UNCHANGED <<size, replies, posted, seen, events, tasks, hist>>

remove_emote(n) ==
    /\ n \in emotes
    /\ emotes' = emotes \ {n}
    /\ done' = Idle
    /\ UNCHANGED <<size, replies, posted, seen, events, tasks, hist>>

\* ------------------------------------------------------------ on_message
\* log_emote_use(emote, author) is called
LogOne(tk, e) ==
    [tk EXCEPT !.logged = @ \cup {e},
               !.relogged = IF e \in tk.logged THEN @ \cup {e} ELSE @]

\* LogUsage as it would be without `if not has_emotes: return`
LogUsage_noReturn(t, tk) ==
    IF tk.used = {}
    THEN Suspend(t, [tk EXCEPT !.pc = "log"])
    ELSE \E e \in tk.used :
            Suspend(t, [LogOne(tk, e) EXCEPT !.tolog = tk.used \ {e}, !.pc = "log"])

\* _extract_emotes after its token loop, with log_usage: nothing used means
\* has_emotes is false and on_message returns; otherwise log_emote_use is
\* awaited for one emote of emotes_used after the other
LogUsage(t, tk) ==
    IF tk.used = {}
    THEN Finish(t, tk, "returned")
    ELSE \E e \in tk.used :
            Suspend(t, [LogOne(tk, e) EXCEPT !.tolog = tk.used \ {e}, !.pc = "log"])

\* a new-message event: the early returns of on_message (should_reply, a valid
\* command context, permissions, the user's state and blacklist), then
\* extract_emotes up to its first await
on_message(c) ==
    /\ events < MaxEvents
    /\ seen' = seen + 1
    /\ events' = events + 1
    /\ UNCHANGED <<emotes, size, replies, posted>>
    /\ LET t == Idle
           tk0 == NewTask("message", seen + 1, c)
           tk == StartExtract(tk0)
       IN  \E pass \in BOOLEAN :
              IF ~pass
              THEN Finish(t, tk0, "returned")
              ELSE IF LoopEnded(tk)
              THEN LogUsage(t, tk)
              ELSE Suspend(t, [tk EXCEPT !.pc = "lookup"])

\* get_emote settles for the token on_message waits on
on_message_lookup(t) ==
    /\ t \in Running
    /\ t.kind = "message"
    /\ t.pc = "lookup"
    /\ UNCHANGED <<emotes, size, replies, posted, seen, events>>
    /\ LET tk == AfterLookup(t)
       IN  IF LoopEnded(tk)
           THEN LogUsage(t, tk)
           ELSE Suspend(t, tk)

\* log_emote_use settles: the next emote is logged, or the reply is composed
\* and message.channel.send is awaited
on_message_log(t) ==
    /\ t \in Running
    /\ t.kind = "message"
    /\ t.pc = "log"
    /\ UNCHANGED <<emotes, size, replies, posted, seen, events>>
    /\ LET tk == t
       IN  IF tk.tolog # {}
           THEN \E e \in tk.tolog :
                   Suspend(t, [LogOne(tk, e) EXCEPT !.tolog = tk.tolog \ {e}])
           ELSE Suspend(t, [tk EXCEPT !.text = extract_text(tk),
                                      !.posts = Inc(@), !.pc = "send"])

\* on_message_send as it would be if the cache entry were made before the
\* send is known to have succeeded
on_message_send_keepOnFail(t) ==
    /\ t \in Running
    /\ t.kind = "message"
    /\ t.pc = "send"
    /\ UNCHANGED <<emotes, size, seen, events>>
    /\ LET tk == t
           r == Len(posted) + 1
       IN  \/ /\ posted' = Append(posted, [src |-> tk.id, deletes |-> 0])
              /\ replies' = LRUSet(replies, size, tk.id, [rid |-> r, content |-> tk.text])
              /\ Finish(t, [tk EXCEPT !.reply = r], "returned")
           \/ /\ UNCHANGED posted
              /\ replies' = LRUSet(replies, size, tk.id, [rid |-> 0, content |-> <<>>])
              /\ Finish(t, [tk EXCEPT !.failed = TRUE], "HTTPException")

\* on_message_send as it would be if it stored the source message, not the
\* Message that send returned
on_message_send_wrongValue(t) ==
    /\ t \in Running
    /\ t.kind = "message"
    /\ t.pc = "send"
    /\ UNCHANGED <<emotes, size, seen, events>>
    /\ LET tk == t
           r == Len(posted) + 1
       IN  \/ /\ posted' = Append(posted, [src |-> tk.id, deletes |-> 0])
              /\ replies' = LRUSet(replies, size, tk.id, [rid |-> 0, content |-> tk.content])
              /\ Finish(t, [tk EXCEPT !.reply = r], "returned")
           \/ /\ UNCHANGED <<posted, replies>>
              /\ Finish(t, [tk EXCEPT !.failed = TRUE], "HTTPException")

\* on_message_send as it would be if the reply of an entry that falls out of
\* the cache were deleted with it
on_message_send_evictDeletes(t) ==
    /\ t \in Running
    /\ t.kind = "message"
    /\ t.pc = "send"
    /\ UNCHANGED <<emotes, size, seen, events>>
    /\ LET tk == t
           r == Len(posted) + 1
           sent == Append(posted, [src |-> tk.id, deletes |-> 0])
       IN  \/ /\ posted' = IF Len(replies) >= size
                            THEN [sent EXCEPT ![replies[1].value.rid].deletes = Inc(@)]
                            ELSE sent
              /\ replies' = LRUSet(replies, size, tk.id, [rid |-> r, content |-> tk.text])
              /\ Finish(t, [tk EXCEPT !.reply = r], "returned")
           \/ /\ UNCHANGED <<posted, replies>>
              /\ Finish(t, [tk EXCEPT !.failed = TRUE], "HTTPException")

\* on_message_send as it would be if self.replies were a plain dict
on_message_send_plainDict(t) ==
    /\ t \in Running
    /\ t.kind = "message"
    /\ t.pc = "send"
    /\ UNCHANGED <<emotes, size, seen, events>>
    /\ LET tk == t
           r == Len(posted) + 1
       IN  \/ /\ posted' = Append(posted, [src |-> tk.id, deletes |-> 0])
              /\ replies' = Append(replies, [key |-> tk.id,
                                             value |-> [rid |-> r, content |-> tk.text]])
              /\ Finish(t, [tk EXCEPT !.reply = r], "returned")
           \/ /\ UNCHANGED <<posted, replies>>
              /\ Finish(t, [tk EXCEPT !.failed = TRUE], "HTTPException")

\* send settles: the Message it returns is stored in self.replies, or the
\* HTTPException it raises leaves on_message
on_message_send(t) ==
    /\ t \in Running
    /\ t.kind = "message"
    /\ t.pc = "send"
    /\ UNCHANGED <<emotes, size, seen, events>>
    /\ LET tk == t
           r == Len(posted) + 1
       IN  \/ /\ posted' = Append(posted, [src |-> tk.id, deletes |-> 0])
              /\ replies' = LRUSet(replies, size, tk.id, [rid |-> r, content |-> tk.text])
              /\ Finish(t, [tk EXCEPT !.reply = r], "returned")
           \/ /\ UNCHANGED <<posted, replies>>
              /\ Finish(t, [tk EXCEPT !.failed = TRUE], "HTTPException")

\* ---------------------------------------------------- on_raw_message_edit
\* EditReply as it would be without `del self.replies[payload.message_id]`
EditReply_keepEntry(t, tk) ==
    IF ~LRUHas(replies, tk.id)
    THEN /\ Finish(t, tk, "KeyError")
         /\ UNCHANGED <<replies, posted>>
    ELSE LET reply == LRUValue(replies, tk.id)
             touched == LRUTouch(replies, tk.id)
             tk1 == [tk EXCEPT !.reply = reply.rid, !.had = TRUE,
                               !.text = extract_text(tk),
                               !.same = (extract_text(tk) = reply.content)]
         IN  IF ~has_emotes(tk)
             THEN /\ replies' = touched
                  /\ posted' = [posted EXCEPT ![reply.rid].deletes = Inc(@)]
                  /\ Suspend(t, [tk1 EXCEPT !.deletes = Inc(@), !.pc = "delete"])
             ELSE IF tk1.text = reply.content
             THEN /\ replies' = touched
                  /\ UNCHANGED posted
                  /\ Finish(t, tk1, "returned")
             ELSE /\ replies' = touched
                  /\ UNCHANGED posted
                  /\ Suspend(t, [tk1 EXCEPT !.edits = Inc(@), !.pc = "edit"])

\* EditReply as it would be without `elif emotes == reply.content: return`
EditReply_alwaysEdit(t, tk) ==
    IF ~LRUHas(replies, tk.id)
    THEN /\ Finish(t, tk, "KeyError")
         /\ UNCHANGED <<replies, posted>>
    ELSE LET reply == LRUValue(replies, tk.id)
             touched == LRUTouch(replies, tk.id)
             tk1 == [tk EXCEPT !.reply = reply.rid, !.had = TRUE,
                               !.text = extract_text(tk),
                               !.same = (extract_text(tk) = reply.content)]
         IN  IF ~has_emotes(tk)
             THEN /\ replies' = LRUDel(touched, tk.id)
                  /\ posted' = [posted EXCEPT ![reply.rid].deletes = Inc(@)]
                  /\ Suspend(t, [tk1 EXCEPT !.deletes = Inc(@), !.pc = "delete"])
             ELSE /\ replies' = touched
                  /\ UNCHANGED posted
                  /\ Suspend(t, [tk1 EXCEPT !.edits = Inc(@), !.pc = "edit"])

\* EditReply as it would be if extract_emotes were called with log_usage=True
EditReply_logUsage(t, tk) ==
    IF ~LRUHas(replies, tk.id)
    THEN /\ Finish(t, [tk EXCEPT !.logged = tk.used], "KeyError")
         /\ UNCHANGED <<replies, posted>>
    ELSE LET reply == LRUValue(replies, tk.id)
             touched == LRUTouch(replies, tk.id)
             tk1 == [tk EXCEPT !.reply = reply.rid, !.had = TRUE,
                               !.text = extract_text(tk), !.logged = tk.used,
                               !.same = (extract_text(tk) = reply.content)]
         IN  IF ~has_emotes(tk)
             THEN /\ replies' = LRUDel(touched, tk.id)
                  /\ posted' = [posted EXCEPT ![reply.rid].deletes = Inc(@)]
                  /\ Suspend(t, [tk1 EXCEPT !.deletes = Inc(@), !.pc = "delete"])
             ELSE IF tk1.text = reply.content
             THEN /\ replies' = touched
                  /\ UNCHANGED posted
                  /\ Finish(t, tk1, "returned")
             ELSE /\ replies' = touched
                  /\ UNCHANGED posted
                  /\ Suspend(t, [tk1 EXCEPT !.edits = Inc(@), !.pc = "edit"])

\* EditReply as it would be if a changed text were sent as a new reply
\* (message.channel.send) and tracked in place of the old one
EditReply_repost(t, tk) ==
    IF ~LRUHas(replies, tk.id)
    THEN /\ Finish(t, tk, "KeyError")
         /\ UNCHANGED <<replies, posted>>
    ELSE LET reply == LRUValue(replies, tk.id)
             touched == LRUTouch(replies, tk.id)
             tk1 == [tk EXCEPT !.reply = reply.rid, !.had = TRUE,
                               !.text = extract_text(tk),
                               !.same = (extract_text(tk) = reply.content)]
         IN  IF ~has_emotes(tk)
             THEN /\ replies' = LRUDel(touched, tk.id)
                  /\ posted' = [posted EXCEPT ![reply.rid].deletes = Inc(@)]
                  /\ Suspend(t, [tk1 EXCEPT !.deletes = Inc(@), !.pc = "delete"])
             ELSE IF tk1.text = reply.content
             THEN /\ replies' = touched
                  /\ UNCHANGED posted
                  /\ Finish(t, tk1, "returned")
             ELSE /\ posted' = Append(posted, [src |-> tk.id, deletes |-> 0])
                  /\ replies' = LRUSet(touched, size, tk.id,
                                       [rid |-> Len(posted) + 1, content |-> tk1.text])
                  /\ Finish(t, [tk1 EXCEPT !.posts = Inc(@)], "returned")

\* on_raw_message_edit once extract_emotes has returned: the reply is read from
\* self.replies, then deleted, left alone or edited
EditReply(t, tk) ==
    IF ~LRUHas(replies, tk.id)
    THEN /\ Finish(t, tk, "KeyError")
         /\ UNCHANGED <<replies, posted>>
    ELSE LET reply == LRUValue(replies, tk.id)
             touched == LRUTouch(replies, tk.id)
             tk1 == [tk EXCEPT !.reply = reply.rid, !.had = TRUE,
                               !.text = extract_text(tk),
                               !.same = (extract_text(tk) = reply.content)]
         IN  IF ~has_emotes(tk)
             THEN /\ replies' = LRUDel(touched, tk.id)
                  /\ posted' = [posted EXCEPT ![reply.rid].deletes = Inc(@)]
                  /\ Suspend(t, [tk1 EXCEPT !.deletes = Inc(@), !.pc = "delete"])
             ELSE IF tk1.text = reply.content
             THEN /\ replies' = touched
                  /\ UNCHANGED posted
                  /\ Finish(t, tk1, "returned")
             ELSE /\ replies' = touched
                  /\ UNCHANGED posted
                  /\ Suspend(t, [tk1 EXCEPT !.edits = Inc(@), !.pc = "edit"])

\* on_raw_message_edit as it would be with `and` for the `or` of its first test
on_raw_message_edit_and(m, c) ==
    /\ events < MaxEvents
    /\ events' = events + 1
    /\ UNCHANGED <<emotes, size, seen>>
    /\ LET t == Idle
           tk0 == [NewTask("edit", m, IF c = NoContent THEN <<>> ELSE c) EXCEPT
                      !.hascontent = (c # NoContent), !.tracked = LRUHas(replies, m)]
           tk == StartExtract(tk0)
       IN  IF ~LRUHas(replies, m) /\ c = NoContent
           THEN Finish(t, tk0, "returned") /\ UNCHANGED <<replies, posted>>
           ELSE IF LoopEnded(tk)
           THEN EditReply(t, tk)
           ELSE Suspend(t, [tk EXCEPT !.pc = "lookup"]) /\ UNCHANGED <<replies, posted>>

\* on_raw_message_edit as it would be if its first test were for the content
\* only, not for a cache entry
on_raw_message_edit_noEntryTest(m, c) ==
    /\ events < MaxEvents
    /\ events' = events + 1
    /\ UNCHANGED <<emotes, size, seen>>
    /\ LET t == Idle
           tk0 == [NewTask("edit", m, c) EXCEPT !.hascontent = (c # NoContent),
                                                !.tracked = LRUHas(replies, m)]
           tk == StartExtract(tk0)
       IN  IF c = NoContent
           THEN Finish(t, tk0, "returned") /\ UNCHANGED <<replies, posted>>
           ELSE IF LoopEnded(tk)
           THEN EditReply(t, tk)
           ELSE Suspend(t, [tk EXCEPT !.pc = "lookup"]) /\ UNCHANGED <<replies, posted>>

\* an edit event for message m whose payload holds content c (or none)
on_raw_message_edit(m, c) ==
    /\ events < MaxEvents
    /\ events' = events + 1
    /\ UNCHANGED <<emotes, size, seen>>
    /\ LET t == Idle
           tk0 == [NewTask("edit", m, c) EXCEPT !.hascontent = (c # NoContent),
                                                !.tracked = LRUHas(replies, m)]
           tk == StartExtract(tk0)
       IN  IF ~LRUHas(replies, m) \/ c = NoContent
           THEN Finish(t, tk0, "returned") /\ UNCHANGED <<replies, posted>>
           ELSE IF LoopEnded(tk)
           THEN EditReply(t, tk)
           ELSE Suspend(t, [tk EXCEPT !.pc = "lookup"]) /\ UNCHANGED <<replies, posted>>

\* get_emote settles for the token on_raw_message_edit waits on
on_raw_message_edit_lookup(t) ==
    /\ t \in Running
    /\ t.kind = "edit"
    /\ t.pc = "lookup"
    /\ UNCHANGED <<emotes, size, seen, events>>
    /\ LET tk == AfterLookup(t)
       IN  IF LoopEnded(tk)
           THEN EditReply(t, tk)
           ELSE Suspend(t, tk) /\ UNCHANGED <<replies, posted>>

\* reply.delete() settles in on_raw_message_edit: nothing suppresses its
\* HTTPException
on_raw_message_edit_delete(t) ==
    /\ t \in Running
    /\ t.kind = "edit"
    /\ t.pc = "delete"
    /\ UNCHANGED <<emotes, size, replies, posted, seen, events>>
    /\ \/ Finish(t, t, "returned")
       \/ Finish(t, [t EXCEPT !.failed = TRUE], "HTTPException")

\* the Message object a handler holds is the one self.replies holds: its
\* content is set where the cache still refers to it
SetContent(d, rid, text) ==
    [i \in 1..Len(d) |->
        IF d[i].value.rid = rid THEN [d[i] EXCEPT !.value.content = text] ELSE d[i]]

\* on_raw_message_edit_edit as it would be if the reply were given the content
\* of the edited message, not the text composed from it
on_raw_message_edit_edit_raw(t) ==
    /\ t \in Running
    /\ t.kind = "edit"
    /\ t.pc = "edit"
    /\ UNCHANGED <<emotes, size, posted, seen, events>>
    /\ LET tk == t
       IN  \/ /\ replies' = SetContent(replies, tk.reply, tk.content)
              /\ Finish(t, tk, "returned")
           \/ /\ UNCHANGED replies
              /\ Finish(t, [tk EXCEPT !.failed = TRUE], "HTTPException")

\* reply.edit(content=emotes) settles in on_raw_message_edit: the reply takes
\* the new content, or the HTTPException leaves the handler
on_raw_message_edit_edit(t) ==
    /\ t \in Running
    /\ t.kind = "edit"
    /\ t.pc = "edit"
    /\ UNCHANGED <<emotes, size, posted, seen, events>>
    /\ LET tk == t
       IN  \/ /\ replies' = SetContent(replies, tk.reply, tk.text)
              /\ Finish(t, tk, "returned")
           \/ /\ UNCHANGED replies
              /\ Finish(t, [tk EXCEPT !.failed = TRUE], "HTTPException")

\* ----------------------------------------------------------- delete_reply
\* delete_reply as it would be without contextlib.suppress: the HTTPException
\* of message.delete() leaves the handler, the ids that are left are not reached
delete_reply_noSuppress(t, tk) ==
    LET present == tk.todo \cap LRUKeys(replies)
    IN  IF tk.failed
        THEN /\ UNCHANGED <<replies, posted>>
             /\ Finish(t, tk, "HTTPException")
        ELSE IF present = {}
        THEN /\ UNCHANGED <<replies, posted>>
             /\ Finish(t, [tk EXCEPT !.todo = {}], "returned")
        ELSE \E p \in present, skipped \in SUBSET (tk.todo \ present) :
                LET r == LRUValue(replies, p).rid
                IN  /\ replies' = LRUDel(replies, p)
                    /\ posted' = [posted EXCEPT ![r].deletes = Inc(@)]
                    /\ Suspend(t, [tk EXCEPT !.todo = tk.todo \ (skipped \cup {p}),
                                             !.reply = r, !.popped = @ \cup {p},
                                             !.hit = @ \cup {r},
                                             !.deletes = @ + 1, !.pc = "delete"])

\* delete_reply as it would be if, for an id without cache entry, it went on to
\* delete the reply that was once posted for that message
delete_reply_untracked(t, tk) ==
    LET known == {m \in tk.todo : \E r \in 1..Len(posted) : posted[r].src = m}
    IN  IF known = {}
        THEN /\ UNCHANGED <<replies, posted>>
             /\ Finish(t, [tk EXCEPT !.todo = {}], "returned")
        ELSE \E p \in known :
                LET r == CHOOSE r \in 1..Len(posted) : posted[r].src = p
                IN  /\ replies' = IF LRUHas(replies, p) THEN LRUDel(replies, p) ELSE replies
                    /\ posted' = [posted EXCEPT ![r].deletes = Inc(@)]
                    /\ Suspend(t, [tk EXCEPT !.todo = tk.todo \ {p},
                                             !.reply = r, !.popped = @ \cup {p},
                                             !.hit = @ \cup {r},
                                             !.deletes = @ + 1, !.pc = "delete"])

\* delete_reply as it would be if it read the entry (self.replies[message_id])
\* and left it in the cache
delete_reply_noPop(t, tk) ==
    LET present == tk.todo \cap LRUKeys(replies)
    IN  IF present = {}
        THEN /\ UNCHANGED <<replies, posted>>
             /\ Finish(t, [tk EXCEPT !.todo = {}], "returned")
        ELSE \E p \in present, skipped \in SUBSET (tk.todo \ present) :
                LET r == LRUValue(replies, p).rid
                IN  /\ replies' = LRUTouch(replies, p)
                    /\ posted' = [posted EXCEPT ![r].deletes = Inc(@)]
                    /\ Suspend(t, [tk EXCEPT !.todo = tk.todo \ (skipped \cup {p}),
                                             !.reply = r, !.popped = @ \cup {p},
                                             !.hit = @ \cup {r},
                                             !.deletes = @ + 1, !.pc = "delete"])

\* delete_reply for the ids of the event that are left, up to the next await:
\* an id without a cache entry returns at once (KeyError), the first id with an
\* entry is popped and message.delete() is awaited.  The ids of a bulk delete
\* form a set, so the order in which they come is any order.
delete_reply(t, tk) ==
    LET present == tk.todo \cap LRUKeys(replies)
    IN  IF present = {}
        THEN /\ UNCHANGED <<replies, posted>>
             /\ Finish(t, [tk EXCEPT !.todo = {}], "returned")
        ELSE \E p \in present, skipped \in SUBSET (tk.todo \ present) :
                LET r == LRUValue(replies, p).rid
                IN  /\ replies' = LRUDel(replies, p)
                    /\ posted' = [posted EXCEPT ![r].deletes = Inc(@)]
                    /\ Suspend(t, [tk EXCEPT !.todo = tk.todo \ (skipped \cup {p}),
                                             !.reply = r, !.popped = @ \cup {p},
                                             !.hit = @ \cup {r},
                                             !.deletes = @ + 1, !.pc = "delete"])

on_raw_message_delete(m) ==
    /\ events < MaxEvents
    /\ events' = events + 1
    /\ UNCHANGED <<emotes, size, seen>>
    /\ delete_reply(Idle,
                    [NewTask("delete", m, <<>>) EXCEPT
                        !.todo = {m}, !.ids = {m}, !.start = {m} \cap LRUKeys(replies)])

on_raw_bulk_message_delete(ids) ==
    /\ events < MaxEvents
    /\ events' = events + 1
    /\ UNCHANGED <<emotes, size, seen>>
    /\ delete_reply(Idle,
                    [NewTask("bulk", 0, <<>>) EXCEPT
                        !.todo = ids, !.ids = ids, !.start = ids \cap LRUKeys(replies)])

\* message.delete() settles in delete_reply: an HTTPException is suppressed,
\* and the loop of the bulk delete goes on
delete_reply_done(t) ==
    /\ t \in Running
    /\ t.kind \in {"delete", "bulk"}
    /\ t.pc = "delete"
    /\ UNCHANGED <<emotes, size, seen, events>>
    /\ \/ delete_reply(t, t)
       \/ delete_reply(t, [t EXCEPT !.failed = TRUE])

\* ------------------------------------------------------ the quote command
\* quote_emotes has returned: the quoted text is sent (the command's own
\* message may be deleted before, which touches no reply)
QuoteSend(t, tk) ==
    Suspend(t, [tk EXCEPT !.text = extract_text(tk), !.posts = Inc(@), !.pc = "send"])

\* the quote command is invoked with the text c
quote(c) ==
    /\ events < MaxEvents
    /\ events' = events + 1
    /\ UNCHANGED <<emotes, size, replies, posted, seen>>
    /\ LET tk == StartExtract(NewTask("quote", 0, c))
       IN  IF LoopEnded(tk)
           THEN QuoteSend(Idle, tk)
           ELSE Suspend(Idle, [tk EXCEPT !.pc = "lookup"])

\* get_emote settles for the token the quote command waits on
quote_lookup(t) ==
    /\ t \in Running
    /\ t.kind = "quote"
    /\ t.pc = "lookup"
    /\ UNCHANGED <<emotes, size, replies, posted, seen, events>>
    /\ LET tk == AfterLookup(t)
       IN  IF LoopEnded(tk)
           THEN QuoteSend(t, tk)
           ELSE Suspend(t, tk)

\* context.send settles in the quote command
quote_send(t) ==
    /\ t \in Running
    /\ t.kind = "quote"
    /\ t.pc = "send"
    /\ UNCHANGED <<emotes, size, replies, posted, seen, events>>
    /\ \/ Finish(t, t, "returned")
       \/ Finish(t, [t EXCEPT !.failed = TRUE], "HTTPException")

\* ------------------------------------------------------- the specification
Next ==
    \/ \E n \in Names : add_emote(n)
    \/ \E n \in Names : remove_emote(n)
    \/ \E c \in Contents : on_message(c)
    \/ \E t \in Running : on_message_lookup(t)
    \/ \E t \in Running : on_message_log(t)
    \/ \E t \in Running : on_message_send(t)
    \/ \E m \in 1..seen, c \in Contents \cup {NoContent} : on_raw_message_edit(m, c)
    \/ \E t \in Running : on_raw_message_edit_lookup(t)
    \/ \E t \in Running : on_raw_message_edit_delete(t)
    \/ \E t \in Running : on_raw_message_edit_edit(t)
    \/ \E m \in 1..seen : on_raw_message_delete(m)
    \/ \E ids \in SUBSET (1..seen) : Cardinality(ids) >= 2 /\ on_raw_bulk_message_delete(ids)
    \/ \E t \in Running : delete_reply_done(t)

Spec == Init /\ [][Next]_vars

\* the cog after MaxCache messages that hold the emote x twice were answered,
\* one after the other: the cache is full, every reply is tracked; the feed
\* has two events left to deliver
InitFull ==
    /\ emotes \in SUBSET Names
    /\ size = MaxCache
    /\ events = MaxEvents - 2
    /\ replies = [i \in 1..MaxCache |->
                    [key |-> i,
                     value |-> [rid |-> i, content |-> Render(<<"x">>) \o Render(<<"x">>)]]]
    /\ posted = [i \in 1..MaxCache |-> [src |-> i, deletes |-> 0]]
    /\ seen = MaxCache
    /\ tasks = EmptyBag
    /\ done = Idle
    /\ hist = HistOff

\* the events that follow on a full cache
SpecFullCache == InitFull /\ [][Next]_vars

\* one extraction at a time, over the texts: the cog tracks the reply to
\* message 1, the feed has one event left to deliver, and the store holds any
\* of the names
InitExtract ==
    /\ emotes \in SUBSET ExtractNames
    /\ size = MaxCache
    /\ events = MaxEvents - 1
    /\ replies = <<[key |-> 1, value |-> [rid |-> 1, content |-> Render(<<"x">>)]]>>
    /\ posted = <<[src |-> 1, deletes |-> 0]>>
    /\ seen = 1
    /\ tasks = EmptyBag
    /\ done = Idle
    /\ hist = HistOff

\* a new message, an edit of the tracked message or a quote command with any of
\* the texts, while emotes are added to and removed from the store
NextExtract ==
    \/ \E n \in ExtractNames : add_emote(n)
    \/ \E n \in ExtractNames : remove_emote(n)
    \/ \E c \in Texts : on_message(c)
    \/ \E t \in Running : on_message_lookup(t)
    \/ \E t \in Running : on_message_log(t)
    \/ \E t \in Running : on_message_send(t)
    \/ \E c \in Texts : on_raw_message_edit(1, c)
    \/ \E t \in Running : on_raw_message_edit_lookup(t)
    \/ \E t \in Running : on_raw_message_edit_delete(t)
    \/ \E t \in Running : on_raw_message_edit_edit(t)
    \/ \E c \in Texts : quote(c)
    \/ \E t \in Running : quote_lookup(t)
    \/ \E t \in Running : quote_send(t)

SpecExtract == InitExtract /\ [][NextExtract]_vars

\* the cog after the message 1 with the content :x: was answered, its event
\* being the only one so far, and with the record of the events kept
InitEdits ==
    /\ emotes \in SUBSET ExtractNames
    /\ size = MaxCache
    /\ events = 1
    /\ replies = <<[key |-> 1, value |-> [rid |-> 1, content |-> Render(<<"x">>)]]>>
    /\ posted = <<[src |-> 1, deletes |-> 0]>>
    /\ seen = 1
    /\ tasks = EmptyBag
    /\ done = Idle
    /\ hist = [on |-> TRUE, failed |-> FALSE, deleted |-> {},
               latest |-> [m \in Msgs |-> IF m = 1 THEN <<":", "x", ":">> ELSE NoContent]]

\* the contents of the edits of one message: one symbol, the other, both, none
EditContents ==
    {<<":", "x", ":">>, <<";", "y", ";">>, <<":", "x", ":", ";", "y", ";">>, <<"a">>}

\* edits of the tracked message, one after the other or overlapping, while
\* emotes are added to and removed from the store
NextEdits ==
    \/ \E n \in ExtractNames : add_emote(n)
    \/ \E n \in ExtractNames : remove_emote(n)
    \/ \E c \in EditContents : on_raw_message_edit(1, c)
    \/ \E t \in Running : on_raw_message_edit_lookup(t)
    \/ \E t \in Running : on_raw_message_edit_delete(t)
    \/ \E t \in Running : on_raw_message_edit_edit(t)

SpecEdits == InitEdits /\ [][NextEdits]_vars

\* the cog as it is built, with the record of the events kept
InitDeletes ==
    /\ emotes \in SUBSET Names
    /\ size = MaxCache
    /\ events = 0
    /\ replies = <<>>
    /\ posted = <<>>
    /\ seen = 0
    /\ tasks = EmptyBag
    /\ done = Idle
    /\ hist = [on |-> TRUE, failed |-> FALSE, deleted |-> {},
               latest |-> [m \in Msgs |-> NoContent]]

\* new messages and the delete and bulk-delete events for them, in any
\* interleaving of their handlers
NextDeletes ==
    \/ \E n \in Names : add_emote(n)
    \/ \E n \in Names : remove_emote(n)
    \/ \E c \in Contents : on_message(c)
    \/ \E t \in Running : on_message_lookup(t)
    \/ \E t \in Running : on_message_log(t)
    \/ \E t \in Running : on_message_send(t)
    \/ \E m \in 1..seen : on_raw_message_delete(m)
    \/ \E ids \in SUBSET (1..seen) : Cardinality(ids) >= 2 /\ on_raw_bulk_message_delete(ids)
    \/ \E t \in Running : delete_reply_done(t)

SpecDeletes == InitDeletes /\ [][NextDeletes]_vars

\* ---------------------------------------------------------------- claims
\* the handlers there is something to say about: the suspended ones and the one
\* that has just finished
Handlers == Running \cup {done}

\* C1: no failure of the outbound client leaves a handler: when send fails in
\* on_message, delete or edit fails in on_raw_message_edit, or delete fails in a
\* delete or bulk-delete handler, the handler still returns normally.
C1_FailureNeverEscapes ==
    done.failed => done.outcome = "returned"

\* C2: an edit of a message whose reply is tracked, with a content in which no
\* symbol resolves, makes exactly one delete call on the tracked reply, makes no
\* edit call, and the cache entry of the message is gone.
C2_EditWithoutEmotesDeletesReply ==
    \A t \in Handlers :
        (t.kind = "edit" /\ t.had /\ t.used = {}) =>
            /\ t.deletes = 1
            /\ t.edits = 0
            /\ posted[t.reply].deletes = 1
            /\ posted[t.reply].src = t.id
            /\ ~LRUHas(replies, t.id)

C2_Witness ==
    /\ done.kind = "edit"
    /\ done.had
    /\ done.used = {}
    /\ done.outcome = "returned"

\* C3: whenever a delete call on a tracked reply fails (source deleted, bulk
\* deleted, or edited to have no resolvable symbol), the failure is swallowed
\* and the cache entry of the source message is removed all the same.
C3_FailedDeleteIsSwallowed ==
    (done.kind \in {"edit", "delete", "bulk"} /\ done.failed /\ done.deletes >= 1) =>
        /\ done.outcome = "returned"
        /\ \A r \in done.hit \cup (IF done.kind = "edit" THEN {done.reply} ELSE {}) :
              ~LRUHas(replies, posted[r].src)

\* C4: when the handler of a delete or bulk-delete event over the ids S
\* finishes, it has returned normally, also when delete calls failed; every id
\* of S it found in the cache had one delete call on its reply; no id of S that
\* was in the cache when the event came is in the cache; its calls went to
\* replies of S only; and no step of it changes a cache entry whose id is not
\* in S or makes a call on the reply of such an entry.
C4_DeleteStep ==
    \A t \in (Running' \cup {done'}) \ Handlers :
        t.kind \in {"delete", "bulk"} =>
            /\ t.popped \subseteq t.ids
            /\ t.deletes = Cardinality(t.popped)
            /\ Cardinality(t.hit) = Cardinality(t.popped)
            /\ \A r \in t.hit : posted'[r].deletes = 1 /\ posted'[r].src \in t.popped
            /\ \A m \in t.popped : ~LRUHas(replies', m)
            /\ \A m \in LRUKeys(replies) \ t.ids :
                  LRUHas(replies', m) /\ LRUValue(replies', m) = LRUValue(replies, m)
            /\ \A r \in 1..Len(posted) : posted[r].src \notin t.ids => posted'[r] = posted[r]
            /\ t.pc = "done" =>
                  /\ t.outcome = "returned"
                  /\ t.todo = {}
                  /\ \A m \in t.start : ~LRUHas(replies', m)
                  /\ (t.ids \cap LRUKeys(replies) = {} /\ t.popped = {}) => t.deletes = 0

C4_DeleteHandlers == [][C4_DeleteStep]_vars

C4_Witness ==
    /\ done.kind = "bulk"
    /\ done.failed
    /\ Cardinality(done.popped) = 2

\* C5: an edit of a message whose tracked reply has the content R, with a
\* content that composes to R (a symbol resolves and the composed text is R),
\* makes no edit call and no delete call and leaves the cache entry in place.
C5_SameTextMakesNoCall ==
    (done.kind = "edit" /\ done.had /\ done.used # {} /\ done.same) =>
        /\ done.edits = 0
        /\ done.deletes = 0
        /\ done.outcome = "returned"
        /\ LRUHas(replies, done.id)
        /\ LRUValue(replies, done.id).rid = done.reply

C5_Witness ==
    /\ done.kind = "edit"
    /\ done.had
    /\ done.used # {}
    /\ done.same

\* C6: when send fails in on_message, no cache entry is made for the message:
\* the step leaves the cache as it was.
C6_FailedSendStep ==
    (done'.kind = "message" /\ done'.failed) =>
        /\ replies' = replies
        /\ ~LRUHas(replies', done'.id)

C6_FailedSendLeavesCache == [][C6_FailedSendStep]_vars

C6_Witness ==
    /\ done.kind = "message"
    /\ done.failed
    /\ done.posts = 1

\* C7: an edit event for a message without cache entry, or with a payload
\* without content, does nothing: no lookup, no send, edit or delete call, no
\* usage logged, the cache unchanged.
C7_IgnoredEditStep ==
    (done'.kind = "edit" /\ (~done'.tracked \/ ~done'.hascontent)) =>
        /\ done'.outcome = "returned"
        /\ done'.lookups = 0
        /\ done'.posts = 0 /\ done'.edits = 0 /\ done'.deletes = 0
        /\ done'.logged = {}
        /\ replies' = replies
        /\ posted' = posted
        /\ tasks' = tasks

C7_IgnoredEditDoesNothing == [][C7_IgnoredEditStep]_vars

C7_Witness ==
    /\ done.kind = "edit"
    /\ done.tracked
    /\ ~done.hascontent

\* C8: a new message in which no symbol resolves gets no reply: send is not
\* called and no cache entry is made.
C8_NoEmotesNoReply ==
    \A t \in Handlers :
        (t.kind = "message" /\ t.used = {}) =>
            /\ t.posts = 0
            /\ t.pc \notin {"log", "send"}
            /\ ~LRUHas(replies, t.id)
            /\ \A r \in 1..Len(posted) : posted[r].src # t.id

C8_Witness ==
    /\ done.kind = "message"
    /\ done.lookups = 2
    /\ done.used = {}

\* C9: a cache entry is made only by on_message, only when a symbol of the
\* message resolved, and only when send has returned; it maps the id of the
\* message to the reply that this send returned.
C9_EntryStep ==
    \A m \in Msgs :
        (~LRUHas(replies, m) /\ LRUHas(replies', m)) =>
            /\ done'.kind = "message"
            /\ done'.id = m
            /\ done'.outcome = "returned"
            /\ done'.used # {}
            /\ done'.posts = 1
            /\ ~done'.failed
            /\ Len(posted') = Len(posted) + 1
            /\ done'.reply = Len(posted')
            /\ posted'[done'.reply].src = m
            /\ \E t \in Running :
                  /\ t.kind = "message" /\ t.id = m /\ t.pc = "send"
                  /\ LRUValue(replies', m) = [rid |-> done'.reply, content |-> t.text]

C9_EntryOnlyAfterSend == [][C9_EntryStep]_vars

C9_Witness ==
    /\ done.kind = "message"
    /\ done.outcome = "returned"
    /\ done.posts = 1
    /\ LRUHas(replies, done.id)

\* C10: for a message and a symbol, log_emote_use is called once if the symbol
\* resolved in the message as on_message saw it, however often it occurs, and
\* not at all otherwise; the handlers of edit events never call it.
C10_UsageLoggedOnce ==
    \A t \in Handlers :
        /\ t.relogged = {}
        /\ t.logged \subseteq t.used
        /\ t.kind # "message" => t.logged = {}
        /\ (t.kind = "message" /\ t.pc \in {"send", "done"} /\ t.lookups > 0) =>
              t.logged = t.used

C10_Witness ==
    \E t \in Running :
        /\ t.kind = "message"
        /\ t.pc = "send"
        /\ t.out = <<"\n">> \o Render(<<"x">>) \o Render(<<"x">>)
        /\ t.logged = {<<"x">>}
        /\ \E e \in Running : e.kind = "edit" /\ e.used # {}

\* C11: in every reachable state the reply cache holds at most N entries, N
\* being the size self.replies was built with.
C11_CacheBounded ==
    /\ size = MaxCache
    /\ Len(replies) <= size

\* a full cache after more replies were posted than it can hold, none deleted
C11_Witness ==
    /\ Len(replies) = size
    /\ Len(posted) > size
    /\ \A r \in 1..Len(posted) : posted[r].deletes = 0

\* the keys of the cache, least recently used first
KeySeq(d) == [i \in 1..Len(d) |-> d[i].key]
\* a sequence of keys without the keys outside ks
Restrict(q, ks) == SelectSeq(q, LAMBDA k : k \in ks)
\* the handlers a step has suspended, and the ids whose entry the step has
\* inserted or read through self.replies[...]
Suspended == {h \in BagToSet(tasks') : CopiesIn(h, tasks') > CopiesIn(h, tasks)}
Inserted == LRUKeys(replies') \ LRUKeys(replies)
Accessed ==
    {h.id : h \in {h \in Suspended : h.kind = "edit" /\ h.had /\ h.pc \in {"delete", "edit"}}}
    \cup (IF done'.kind = "edit" /\ done'.had /\ done'.edits = 0 /\ done'.deletes = 0
          THEN {done'.id} ELSE {})

\* C12: an insertion into a cache that holds N entries evicts exactly one entry,
\* the least recently inserted or accessed one, and keeps the N-1 others; no
\* call is made on the reply of the evicted entry.  That the first entry is the
\* least recently inserted or accessed one is the second half: a step moves
\* the key it inserts or reads to the end and leaves the order of the others.
C12_Step ==
    /\ (Inserted # {} /\ Len(replies) = size) =>
          /\ Cardinality(Inserted) = 1
          /\ Len(replies') = size
          /\ LRUKeys(replies) \ LRUKeys(replies') = {replies[1].key}
          /\ \A i \in 2..Len(replies) : replies'[i - 1] = replies[i]
          /\ Len(posted') = Len(posted) + 1
          /\ \A r \in 1..Len(posted) : posted'[r] = posted[r]
          /\ done'.kind = "message" /\ done'.edits = 0 /\ done'.deletes = 0
    /\ LET moved == Inserted \cup Accessed
           rest == LRUKeys(replies') \ moved
       IN  /\ \A k \in moved \cap LRUKeys(replies') : replies'[Len(replies')].key = k
           /\ Restrict(KeySeq(replies'), rest) = Restrict(KeySeq(replies), rest)

C12_EvictsLeastRecentlyUsed == [][C12_Step]_vars

\* the second message was evicted, not the first, which an edit event had
\* accessed in between; the evicted reply had no delete call
C12_Witness ==
    /\ done.kind = "message"
    /\ done.outcome = "returned"
    /\ done.id = MaxCache + 1
    /\ LRUHas(replies, done.id)
    /\ LRUHas(replies, 1)
    /\ ~LRUHas(replies, 2)
    /\ posted[2].deletes = 0
    /\ Len(replies) = size

\* the replies whose entry was evicted: posted, not tracked, and never deleted
\* (a handler that removes an entry makes its delete call in the same step)
Evicted(r) ==
    /\ posted[r].deletes = 0
    /\ ~LRUHas(replies, posted[r].src)

\* the handlers that have acted in a step
Acted == Suspended \cup ({done'} \ {Idle})

\* C13: once the entry of a message is evicted, no later edit, delete or
\* bulk-delete event for that message makes an edit or delete call: the event's
\* handler finds no entry, the reply's record never changes again and the
\* message is never tracked again.
C13_Step ==
    \A r \in 1..Len(posted) :
       Evicted(r) =>
          /\ posted'[r] = posted[r]
          /\ ~LRUHas(replies', posted[r].src)
          /\ events' = events + 1 =>
                \A h \in Acted :
                   /\ (h.kind = "edit" /\ h.id = posted[r].src) =>
                         /\ ~h.tracked
                         /\ h.pc = "done" /\ h.outcome = "returned"
                         /\ h.edits = 0 /\ h.deletes = 0
                   /\ (h.kind \in {"delete", "bulk"} /\ posted[r].src \in h.ids) =>
                         /\ posted[r].src \notin h.start
                         /\ posted[r].src \notin h.popped
                         /\ r \notin h.hit

C13_EvictedReplyNeverTouched == [][C13_Step]_vars

\* a bulk delete over an evicted message and a tracked one has finished: the
\* tracked reply had its delete call, the evicted one none
C13_Witness ==
    /\ done.kind = "bulk"
    /\ done.outcome = "returned"
    /\ done.popped # {}
    /\ \E r \in 1..Len(posted) : Evicted(r) /\ posted[r].src \in done.ids \ done.popped

\* C14: in every reachable state, also while handlers are suspended at lookups
\* or calls, the cache has at most one entry per source message and per reply,
\* each entry leads to the reply posted for its message, at most one reply was
\* ever posted for a message, and no handler has called send twice.
C14_OneReplyPerMessage ==
    /\ \A i, j \in 1..Len(replies) :
          i # j => /\ replies[i].key # replies[j].key
                   /\ replies[i].value.rid # replies[j].value.rid
    /\ \A i \in 1..Len(replies) :
          /\ replies[i].value.rid \in 1..Len(posted)
          /\ posted[replies[i].value.rid].src = replies[i].key
    /\ \A r1, r2 \in 1..Len(posted) : r1 # r2 => posted[r1].src # posted[r2].src
    /\ \A t \in Handlers : t.posts <= 1
    /\ \A t \in Running :
          (t.kind = "message" /\ t.pc = "send") =>
              /\ CopiesIn(t, tasks) = 1
              /\ \A r \in 1..Len(posted) : posted[r].src # t.id

\* a tracked reply, while a send for another message and the lookups of an edit
\* of the tracked message are pending
C14_Witness ==
    /\ Len(replies) = 1
    /\ \E t1, t2 \in Running :
          /\ t1.kind = "message" /\ t1.pc = "send" /\ ~LRUHas(replies, t1.id)
          /\ t2.kind = "edit" /\ t2.pc = "lookup" /\ LRUHas(replies, t2.id)

\* what Finish keeps of a handler that returns
Returned(t) ==
    [t EXCEPT !.outcome = "returned", !.pc = "done", !.content = <<>>, !.i = 0,
              !.out = <<>>, !.text = <<>>, !.tolog = {}]

\* C15: an edit of a message with a tracked reply, with a content in which a
\* symbol resolves and that composes to a text other than the reply's content,
\* makes exactly one edit call, with the composed text, and no delete call; the
\* steps of its handler leave the cache mapping every message to the reply it
\* was mapped to, and when the call returns the reply has the composed text.
C15_Step ==
    \A h \in Acted :
       (h.kind = "edit" /\ h.had /\ h.used # {} /\ ~h.same) =>
          /\ h.edits = 1 /\ h.deletes = 0 /\ h.posts = 0
          /\ posted' = posted
          /\ KeySeq(replies') = IF h.pc = "edit" THEN KeySeq(LRUTouch(replies, h.id))
                                ELSE KeySeq(replies)
          /\ \A k \in LRUKeys(replies) : LRUValue(replies', k).rid = LRUValue(replies, k).rid
          /\ h.pc \in {"edit", "done"}
          /\ h.pc = "edit" =>
                /\ h.text = fix_first_line(clean_content(h.out))
                /\ LRUValue(replies', h.id) = [rid |-> h.reply,
                                              content |-> LRUValue(replies, h.id).content]
                /\ h.text # LRUValue(replies', h.id).content
          /\ (h.pc = "done" /\ h.failed) => replies' = replies
          /\ (h.pc = "done" /\ ~h.failed) =>
                /\ h.outcome = "returned"
                /\ \E t \in Running :
                      /\ Returned(t) = h
                      /\ \A k \in LRUKeys(replies) :
                            LRUValue(replies', k).content =
                               IF LRUValue(replies, k).rid = h.reply THEN t.text
                               ELSE LRUValue(replies, k).content

C15_ChangedTextEditsInPlace == [][C15_Step]_vars

\* an edit has returned after its call, and the tracked reply of the message
\* now has another text than the one it was posted with
C15_Witness ==
    /\ done.kind = "edit"
    /\ done.had /\ done.used # {} /\ ~done.same
    /\ done.outcome = "returned"
    /\ done.edits = 1
    /\ LRUHas(replies, done.id)
    /\ LRUValue(replies, done.id).rid = done.reply
    /\ LRUValue(replies, done.id).content = <<";", "x", ";">> \o Render(<<"x">>)

\* the handlers that are in the token loop of _extract_emotes or past it
Extracting == {t \in Running : t.kind \in {"message", "edit", "quote"}}

\* what the loop may have written for one token: a symbol's rendered form or its
\* literal text; other text as the caller's predicate has it
PieceSet(kind, tok) ==
    IF tok.type = "EMOTE" THEN {Render(strip(tok.value)), tok.value}
    ELSE IF kind = "quote" \/ tok.value = <<"\n">> THEN {tok.value}
    ELSE {<<>>}

\* the buffers that hold one piece per token for the first n tokens, in the
\* order of the tokens
RECURSIVE OrderedOutputs(_, _, _)
OrderedOutputs(kind, toks, n) ==
    IF n = 0 THEN {<<>>}
    ELSE {o \o p : o \in OrderedOutputs(kind, toks, n - 1), p \in PieceSet(kind, toks[n])}

\* C16: whatever the delays of the lookups and whatever happens to the store in
\* between, the output buffer holds the pieces written for the tokens in the
\* order of the tokens: the piece of token i before the piece of token j when
\* i < j; and the text composed from a resolved symbol is made of that buffer.
C16_OutputInTokenOrder ==
    \A t \in Extracting :
       /\ t.out \in OrderedOutputs(t.kind, lexer(t.content), t.i - 1)
       /\ (t.used # {} /\ t.pc \in {"send", "edit"}) =>
             t.text = IF t.kind = "quote" THEN clean_content(t.out)
                      ELSE fix_first_line(clean_content(t.out))

\* the first symbol missed, the second was found, and the first would be found
\* by now
C16_Witness ==
    \E t \in Extracting :
       /\ t.content = <<":", "x", ":", ";", "y", ";">>
       /\ t.out = <<":", "x", ":">> \o Render(<<"y">>)
       /\ t.pc = "send"
       /\ <<"x">> \in emotes

\* s starts with p
StartsWith(s, p) == Len(s) >= Len(p) /\ SubSeq(s, 1, Len(p)) = p

\* C17: a symbol token whose lookup finds nothing is written as its literal
\* text, delimiters included, adds nothing to the used set and raises nothing;
\* and when the loop has ended with every lookup missed, the used set is empty
\* and the result of the extraction (line 738) is the input content.
C17_Step ==
    /\ \A t \in Extracting :
          (t.pc = "lookup" /\ CopiesIn(t, tasks') < CopiesIn(t, tasks)
             /\ strip(lexer(t.content)[t.i].value) \notin emotes) =>
             \A h \in Acted :
                /\ h.used = t.used
                /\ ~h.failed
                /\ h.outcome \in {"none", "returned"}
                /\ h.pc # "done" => StartsWith(h.out, t.out \o lexer(t.content)[t.i].value)
    /\ \A h \in Suspended :
          (h.kind \in {"message", "edit", "quote"} /\ h.pc # "lookup" /\ h.used = {}) =>
             /\ result(h) = h.content
             /\ h.kind = "quote" => h.out = h.content

Unresolved == {t \in Extracting : t.pc \in {"send", "delete"} /\ t.used = {}}

\* C18 as the spec has it: when no symbol was resolved, what extract_emotes and
\* quote_emotes return equals the input content exactly.
C18_RoundTripExact ==
    \A t \in Unresolved : t.text = t.content

\* a text without the marks that neutralise a mention, and a content from its
\* first character that is no newline
Unmarked(text) == SelectSeq(text, LAMBDA ch : ch # "~")
FromFirstLine(c) ==
    LET k == CHOOSE k \in 0..Len(c) :
                /\ \A j \in 1..k : c[j] = "\n"
                /\ k = Len(c) \/ c[k + 1] # "\n"
    IN  Slice(c, k + 1, Len(c))

\* C18, amended: when no symbol was resolved, the returned text is made from
\* the input content, not from the tokens: it is the content with its mention
\* markers neutralised (clean_content), and under extract_emotes from its first
\* non-empty line on (fix_first_line); it equals the input exactly when the
\* content has no mention marker and, under extract_emotes, no leading newline.
C18_RoundTripUpToCleaning ==
    \A t \in Unresolved :
       /\ Unmarked(t.text) = IF t.kind = "quote" THEN t.content ELSE FromFirstLine(t.content)
       /\ \A i \in 1..Len(t.text) :
             /\ t.text[i] = "~" => (i > 1 /\ t.text[i - 1] = "@")
             /\ t.text[i] = "@" => (i < Len(t.text) /\ t.text[i + 1] = "~")
       /\ ((\A i \in 1..Len(t.content) : t.content[i] # "@")
             /\ (t.kind = "quote" \/ ~StartsWith(t.content, <<"\n">>))) =>
             t.text = t.content

\* a quote of a mention marker and a symbol that is not found
C18_Witness ==
    \E t \in Unresolved :
       /\ t.kind = "quote"
       /\ t.content = <<"@", ":", "x", ":">>
       /\ t.lookups = 1
       /\ t.text = <<"@", "~", ":", "x", ":">>

\* the texts of a token sequence, one after the other
RECURSIVE Concat(_)
Concat(toks) == IF toks = <<>> THEN <<>> ELSE toks[1].value \o Concat(Tail(toks))

\* :ident: or ;ident; with a bare, non-empty identifier
IsSymbol(v) ==
    /\ Len(v) >= 3
    /\ v[1] \in Delims
    /\ v[Len(v)] = v[1]
    /\ \A j \in 2..(Len(v) - 1) : v[j] \in IdentChars

C20_Step ==
    /\ events' = events + 1 =>
       \A h \in Acted :
          (h.kind = "edit" /\ \E t \in Running : t.kind = "message" /\ t.id = h.id) =>
             /\ h = done'
             /\ ~h.tracked
             /\ h.outcome = "returned"
             /\ h.lookups = 0 /\ h.posts = 0 /\ h.edits = 0 /\ h.deletes = 0
             /\ h.logged = {}
             /\ replies' = replies /\ posted' = posted /\ tasks' = tasks
    /\ (done'.kind = "message" /\ done'.posts = 1 /\ ~done'.failed) =>
       \A t \in Running :
          (t.kind = "message" /\ t.pc = "send" /\ CopiesIn(t, tasks') < CopiesIn(t, tasks)) =>
             /\ done'.kind = "message" /\ done'.id = t.id /\ done'.outcome = "returned"
             /\ t.content \in Contents \cup Texts
             /\ t.out \in OrderedOutputs("message", lexer(t.content), Len(lexer(t.content)))
             /\ LRUHas(replies', t.id)
             /\ LRUValue(replies', t.id) =
                   [rid |-> Len(posted'), content |-> fix_first_line(clean_content(t.out))]
             /\ posted'[Len(posted')] = [src |-> t.id, deletes |-> 0]

C20_EditBeforeInsertIsIgnored == [][C20_Step]_vars

\* an edit with content has just been ignored while the send for its message
\* is pending
C20_Witness ==
    /\ done.kind = "edit"
    /\ done.hascontent
    /\ ~done.tracked
    /\ done.outcome = "returned"
    /\ \E t \in Running : t.kind = "message" /\ t.id = done.id /\ t.pc = "send"

\* the texts extract_emotes composes from the content c when at least one of
\* its symbols resolves, whatever the store holds at each lookup (a rendered
\* form is the only piece that holds a "<")
Compositions(c) ==
    LET toks == lexer(c)
        outs == {o \in OrderedOutputs("message", toks, Len(toks)) :
                    \E j \in 1..Len(o) : o[j] = "<"}
    IN  {fix_first_line(clean_content(o)) : o \in outs}

\* C21: once every handler has finished and no call of the outbound client has
\* failed, each message that has a cache entry has a reply that was not deleted
\* and whose content is a symbol-only composition of the content that the
\* latest edit event has carried for the message (of the original content if
\* it was never edited), also when the handlers of two edits overlap.
C21_ReplyFollowsLatestEdit ==
    (hist.on /\ tasks = EmptyBag /\ ~hist.failed) =>
       \A i \in 1..Len(replies) :
          /\ posted[replies[i].value.rid].src = replies[i].key
          /\ posted[replies[i].value.rid].deletes = 0
          /\ replies[i].value.content \in Compositions(hist.latest[replies[i].key])

\* the first symbol token from token i on (Len(toks) + 1 if there is none), the
\* newlines among the tokens a..b, and the number of symbol tokens among the
\* first n tokens
RECURSIVE NextSymbol(_, _)
NextSymbol(toks, i) ==
    IF i > Len(toks) \/ toks[i].type = "EMOTE" THEN i ELSE NextSymbol(toks, i + 1)
RECURSIVE Newlines(_, _, _)
Newlines(toks, a, b) ==
    IF a > b THEN <<>>
    ELSE (IF toks[a].type = "TEXT" /\ toks[a].value = <<"\n">> THEN toks[a].value ELSE <<>>)
            \o Newlines(toks, a + 1, b)
RECURSIVE CountSymbols(_, _)
CountSymbols(toks, n) ==
    IF n = 0 THEN 0
    ELSE CountSymbols(toks, n - 1) + (IF toks[n].type = "EMOTE" THEN 1 ELSE 0)

\* the handlers of new-message and edit events, which call extract_emotes
SymbolOnly(hs) == {h \in hs : h.kind \in {"message", "edit"}}

\* C22: under extract_emotes the buffer is built token by token, in order: a
\* handler enters the loop with the newlines of the TEXT tokens before the
\* first symbol; each lookup appends the rendered form if the symbol resolves
\* and its literal text if it does not, then the newlines of the TEXT tokens up
\* to the next symbol; no other TEXT token writes anything and none is looked
\* up (there is one lookup per symbol token passed); and when a symbol has
\* resolved, the result before the fix-up is that buffer.
C22_Step ==
    /\ events' = events + 1 =>
          \A h \in SymbolOnly(Suspended) :
             LET toks == lexer(h.content)
             IN  /\ h.i = NextSymbol(toks, 1)
                 /\ h.out = Newlines(toks, 1, h.i - 1)
                 /\ h.lookups = 0
    /\ \A t \in SymbolOnly(Running) :
          (t.pc = "lookup" /\ CopiesIn(t, tasks') < CopiesIn(t, tasks)) =>
             LET toks == lexer(t.content)
                 tok == toks[t.i]
                 piece == IF strip(tok.value) \in emotes THEN Render(strip(tok.value))
                          ELSE tok.value
                 j == NextSymbol(toks, t.i + 1)
             IN  /\ tok.type = "EMOTE"
                 /\ \A h \in Suspended :
                       /\ h.content = t.content
                       /\ h.i = j
                       /\ h.out = t.out \o piece \o Newlines(toks, t.i + 1, j - 1)
                       /\ h.used = t.used \cup (IF strip(tok.value) \in emotes
                                                 THEN {strip(tok.value)} ELSE {})
    /\ \A h \in SymbolOnly(Suspended) :
          LET toks == lexer(h.content)
              n == CountSymbols(toks, h.i - 1)
          IN  /\ h.lookups = IF n >= 2 THEN 2 ELSE n
              /\ h.pc = "lookup" => (h.i <= Len(toks) /\ toks[h.i].type = "EMOTE")
              /\ (h.pc # "lookup" /\ h.used # {}) =>
                    /\ h.i = Len(toks) + 1
                    /\ result(h) = h.out
                    /\ h.text \in {<<>>, fix_first_line(clean_content(h.out))}

C22_SymbolOnlyOutput == [][C22_Step]_vars

\* a message of plain text, a newline and two symbols, of which the first was
\* not found and the second was: the text is dropped and was not looked up
C22_Witness ==
    \E t \in SymbolOnly(Running) :
       /\ t.kind = "message"
       /\ t.content = T_xx
       /\ t.pc = "send"
       /\ t.lookups = 2
       /\ t.out = <<"\n">> \o <<";", "x", ";">> \o Render(<<"x">>)
       /\ t.text = <<";", "x", ";">> \o Render(<<"x">>)

\* the quote commands that hold the text quote_emotes has returned
Quoted == {t \in Running : t.kind = "quote" /\ t.pc = "send"}

\* C23 as the spec has it: what quote_emotes returns is the input with each
\* symbol token either replaced by its rendered form or left as it is, and
\* every other token reproduced verbatim, in place.
C23_QuoteVerbatim ==
    \A t \in Quoted :
       t.text \in OrderedOutputs("quote", lexer(t.content), Len(lexer(t.content)))

\* C23, amended: under quote_emotes the buffer is the input with every symbol
\* token that resolves replaced by its rendered form and every other token
\* (TEXT tokens, symbols that do not resolve) written verbatim, in place: a
\* handler enters the loop with the tokens before the first symbol, and each
\* lookup appends the rendered form or the literal text and then the tokens up
\* to the next symbol.  What quote_emotes returns is that buffer with its
\* mention markers neutralised (clean_content): the buffer itself when the
\* input has no mention marker.
C23_Step ==
    /\ events' = events + 1 =>
          \A h \in Suspended :
             h.kind = "quote" =>
                LET toks == lexer(h.content)
                IN  /\ h.i = NextSymbol(toks, 1)
                    /\ h.out = Concat(Slice(toks, 1, h.i - 1))
    /\ \A t \in Running :
          (t.kind = "quote" /\ t.pc = "lookup" /\ CopiesIn(t, tasks') < CopiesIn(t, tasks)) =>
             LET toks == lexer(t.content)
                 tok == toks[t.i]
                 piece == IF strip(tok.value) \in emotes THEN Render(strip(tok.value))
                          ELSE tok.value
                 j == NextSymbol(toks, t.i + 1)
             IN  /\ tok.type = "EMOTE"
                 /\ \A h \in Suspended :
                       /\ h.content = t.content
                       /\ h.i = j
                       /\ h.out = t.out \o piece \o Concat(Slice(toks, t.i + 1, j - 1))
    /\ \A h \in Suspended :
          (h.kind = "quote" /\ h.pc = "send") =>
             /\ h.i = Len(lexer(h.content)) + 1
             /\ result(h) = h.out
             /\ h.text = clean_content(h.out)
             /\ Unmarked(h.text) = h.out
             /\ (\A k \in 1..Len(h.content) : h.content[k] # "@") => h.text = h.out

C23_QuoteInlinesSymbols == [][C23_Step]_vars

\* a quote of a mention marker and a symbol that is found
C23_Witness ==
    \E t \in Quoted :
       /\ t.content = <<"@", ":", "x", ":">>
       /\ t.used = {<<"x">>}
       /\ t.out = <<"@">> \o Render(<<"x">>)
       /\ t.text = <<"@", "~">> \o Render(<<"x">>)

\* the handler t after its pending lookup as it is when t runs alone: from its
\* own content, position and buffer and the answer of the store
Alone(t) ==
    LET toks == lexer(t.content)
        tok == toks[t.i]
        name == strip(tok.value)
        j == NextSymbol(toks, t.i + 1)
        between == IF t.kind = "quote" THEN Concat(Slice(toks, t.i + 1, j - 1))
                   ELSE Newlines(toks, t.i + 1, j - 1)
    IN  [t EXCEPT !.i = j,
                  !.out = t.out \o (IF name \in emotes THEN Render(name) ELSE tok.value)
                               \o between,
                  !.used = IF name \in emotes THEN t.used \cup {name} ELSE t.used,
                  !.lookups = Inc(@)]

\* C24: extractions in flight at the same time do not touch each other: when a
\* lookup of one of them settles, the handlers of the others are as they were,
\* and the one that goes on has the position, the buffer and the used set it
\* has when it runs alone; the text it returns is made of its own buffer or
\* content, and its buffer of its own tokens.
C24_Step ==
    \A t \in Extracting :
       (t.pc = "lookup" /\ CopiesIn(t, tasks') < CopiesIn(t, tasks)) =>
          LET a == Alone(t)
              toks == lexer(t.content)
              others == tasks (-) SetToBag({t})
          IN  /\ a.out \in OrderedOutputs(t.kind, toks, a.i - 1)
              /\ a.used \subseteq {strip(toks[k].value) : k \in 1..Len(toks)}
              /\ IF a.i <= Len(toks)
                 THEN tasks' = others (+) SetToBag({a})
                 ELSE \/ /\ tasks' = others
                         /\ done'.kind = t.kind /\ done'.id = t.id
                         /\ done'.used = a.used /\ done'.lookups = a.lookups
                      \/ \E h \in Suspended :
                            /\ tasks' = others (+) SetToBag({h})
                            /\ h.kind = t.kind /\ h.id = t.id /\ h.content = t.content
                            /\ h.i = a.i /\ h.out = a.out
                            /\ h.used = a.used /\ h.lookups = a.lookups
                            /\ h.text \in {<<>>, extract_text(a)}

C24_ExtractionsAreIndependent == [][C24_Step]_vars

\* two extractions in flight over different contents, one of them past its
\* first lookup
C24_Witness ==
    \E t1, t2 \in Extracting :
       /\ t1.content = <<":", "x", ":", ";", "y", ";">>
       /\ t1.pc = "lookup" /\ t1.lookups = 1
       /\ t1.out = Render(<<"x">>)
       /\ t2.content = <<";", "y", ";">>
       /\ t2.pc = "lookup" /\ t2.lookups = 0

\* C25: an edit handler that passed the test for a cache entry and whose entry
\* was removed while it was suspended in its lookups (by a delete or bulk
\* delete, by another edit that found no symbol, or by eviction) returns
\* without raising and makes no edit call and no delete call.
C25_RemovedEntryEndsQuietly ==
    (done.kind = "edit" /\ done.tracked /\ done.hascontent /\ ~done.had) =>
        /\ done.outcome = "returned"
        /\ done.edits = 0
        /\ done.deletes = 0

\* the messages that a delete or bulk-delete event has named and for which no
\* new-message handler and no delete handler is left
Settled ==
    {m \in hist.deleted :
        \A t \in Running :
           /\ ~(t.kind = "message" /\ t.id = m)
           /\ ~(t.kind \in {"delete", "bulk"} /\ m \in t.ids)}

\* C26: a reply does not outlive its deleted source message: in whatever order
\* the steps of the new-message handler and of the delete handler of a message
\* come, also when the delete event is handled while the send is pending, once
\* both have finished the message has no cache entry and every reply posted
\* for it has had a delete call.
C26_ReplyGoesWithItsSource ==
    \A m \in Settled :
       /\ ~LRUHas(replies, m)
       /\ \A r \in 1..Len(posted) : posted[r].src = m => posted[r].deletes >= 1

\* the replies on which a step starts a delete call
DeleteCalls == {r \in 1..Len(posted) : posted'[r].deletes # posted[r].deletes}

\* C27: however the handlers of edit, delete and bulk-delete events interleave,
\* a reply gets at most one delete call, and no edit call is started on a reply
\* that has had a delete call: a step that starts a delete call removes the
\* entry of the reply, which was there, and a step that starts an edit call
\* has read the reply from the cache in that same step.
C27_Step ==
    /\ \A r \in DeleteCalls :
          /\ posted[r].deletes = 0
          /\ posted'[r].deletes = 1
          /\ LRUHas(replies, posted[r].src)
          /\ LRUValue(replies, posted[r].src).rid = r
          /\ ~LRUHas(replies', posted[r].src)
    /\ \A h \in Suspended :
          (h.kind = "edit" /\ h.pc = "edit") =>
             /\ h.edits = 1
             /\ LRUHas(replies, h.id)
             /\ LRUValue(replies, h.id).rid = h.reply
             /\ posted[h.reply].deletes = 0
             /\ posted'[h.reply].deletes = 0
    /\ \A r \in 1..Len(posted') : posted'[r].deletes <= 1

C27_OneDeleteAndNoEditAfter == [][C27_Step]_vars

\* a reply has had its delete call, from a delete event, while an edit call on
\* it that was started before is pending
C27_Witness ==
    \E t, d \in Running :
       /\ t.kind = "edit" /\ t.pc = "edit"
       /\ d.kind \in {"delete", "bulk"} /\ d.pc = "delete"
       /\ t.reply \in d.hit
       /\ posted[t.reply].deletes = 1
       /\ ~LRUHas(replies, t.id)

====
